---- MODULE Spec2Model ----
(***************************************************************************)
(* A model of the MoonUnit test runner (src/src/Runner.cpp): the Lua       *)
(* values the expectation functions compare, the sixteen assert_/expect_   *)
(* functions, the registration of tests (moonunit:test), the interpreter   *)
(* session (WithLua / WithScript), the discovery of tests (LoadTestSuite / *)
(* FindTests), the execution of one test (Runner::RunTest) and the report  *)
(* (Runner::GetReport).                                                    *)
(***************************************************************************)
EXTENDS Integers, Sequences, FiniteSets, TLC

\* ------------------------------------------------------------------ bounds

\* The number of interpreter sessions (calls of WithLua) in one behaviour.
MaxSessions == 3

\* The number of statements of a test body.
MaxBodyLen == 2

\* ------------------------------------------------------------- Lua values

LNil == [t |-> "nil", v |-> 0]
LBool(b) == [t |-> "boolean", v |-> b]
LInt(n) == [t |-> "integer", v |-> n]
LStr(s) == [t |-> "string", v |-> s]
LFun == [t |-> "function", v |-> 0]

\* The number 0/0, a float that is not equal to itself.
LNaN == [t |-> "float", v |-> "nan"]
LTab(f) == [t |-> "table", v |-> f]

EmptyMap == [x \in {} |-> 0]

MapPut(m, k, x) == [y \in DOMAIN m \cup {k} |-> IF y = k THEN x ELSE m[y]]

\* { 1 }, { 2 }, { a = { 1 } } and a table that has a function as a key.
TabA == LTab([k \in {LInt(1)} |-> LInt(1)])
TabB == LTab([k \in {LInt(1)} |-> LInt(2)])
TabN == LTab([k \in {LStr("a")} |-> TabA])
TabF == LTab([k \in {LFun} |-> LInt(1)])

lua_istable(x) == x.t = "table"

\* lua_toboolean: nil and false are false, every other value is true.
lua_toboolean(x) == ~(x.t = "nil" \/ (x.t = "boolean" /\ x.v = FALSE))

\* lua_gettable on a table without metatable: the value, or nil.
lua_gettable(tab, k) == IF k \in DOMAIN tab.v THEN tab.v[k] ELSE LNil

\* The order of the strings the model uses (strcoll).
StrLess(x, y) == <<x, y>> \in {<<"a", "b">>}

\* A value of type LUA_TNUMBER, integer or float.
lua_isnumber(x) == x.t \in {"integer", "float"}

\* lua_compare raises an error ("attempt to compare ...") for an order
\* comparison of two values that are not two numbers or two strings.
CompareRaises(a, b, op) ==
    /\ op \in {"LUA_OPLT", "LUA_OPLE"}
    /\ ~(lua_isnumber(a) /\ lua_isnumber(b))
    /\ ~(a.t = "string" /\ b.t = "string")

\* lua_compare(lua, a, b, op) where it does not raise.
\* No comparison with the float 0/0 is true.
lua_compare(a, b, op) ==
    CASE a = LNaN \/ b = LNaN -> FALSE
      [] op = "LUA_OPEQ" -> (a.t = b.t /\ a.v = b.v)
      [] op = "LUA_OPLT" ->
            IF a.t = "integer" THEN a.v < b.v ELSE StrLess(a.v, b.v)
      [] op = "LUA_OPLE" ->
            IF a.t = "integer" THEN a.v <= b.v
            ELSE (a.v = b.v \/ StrLess(a.v, b.v))

\* ----------------------------------------------------------- value bridge

\* (int) of a lua_Integer: the low bits of the number, as a signed number.
\* The widths are scaled down, as the numbers of the model checker are 32
\* bits wide themselves: int has 4 bits here (-8..7), lua_Integer has more.
ToInt(n) ==
    LET m == n % 16
    IN  IF m >= 8 THEN m - 16 ELSE m

\* JsonValueFromLuaValue raises a Lua error for a value that is no nil,
\* number, boolean or string.
JsonRaises(x) ==
    x.t \notin {"nil", "integer", "float", "boolean", "string"}

JsonValueFromLuaValue(x) ==
    CASE x.t = "nil" -> [t |-> "Null", v |-> 0]
      [] x.t = "integer" -> [t |-> "Integer", v |-> ToInt(x.v)]
      [] x.t = "float" -> [t |-> "FloatingPoint", v |-> x.v]
      [] x.t = "boolean" -> [t |-> "Boolean", v |-> x.v]
      [] x.t = "string" -> [t |-> "String", v |-> x.v]

LuaValueFromJsonValue(j) ==
    CASE j.t = "Boolean" -> LBool(j.v)
      [] j.t = "Integer" -> LInt(ToInt(j.v))
      [] j.t = "FloatingPoint" -> [t |-> "float", v |-> j.v]
      [] j.t = "String" -> LStr(j.v)
      [] OTHER -> LNil

\* EnumerateKeys: the keys of the table as a set of JSON values; it raises
\* when one of the keys cannot be made a JSON value.
EnumerateKeysRaises(tab) == \E k \in DOMAIN tab.v : JsonRaises(k)

EnumerateKeys(tab) == {JsonValueFromLuaValue(k) : k \in DOMAIN tab.v}

\* The order in which a std::set< Json::Value > is walked.
JsonRank(j) ==
    CASE j.t = "Null" -> 0
      [] j.t = "Boolean" -> 1
      [] j.t = "Integer" -> 2
      [] j.t = "FloatingPoint" -> 2
      [] j.t = "String" -> 3

JsonLess(x, y) ==
    \/ JsonRank(x) < JsonRank(y)
    \/ /\ x.t = y.t
       /\ CASE x.t = "Integer" -> x.v < y.v
            [] x.t = "String" -> StrLess(x.v, y.v)
            [] x.t = "Boolean" -> (x.v = FALSE /\ y.v = TRUE)
            [] OTHER -> FALSE

FirstKey(keys) == CHOOSE k \in keys : \A j \in keys \ {k} : JsonLess(k, j)

\* -------------------------------------------------------- deep comparison

\* What CompareLuaTables answers: status is "same" for the empty string,
\* keyChain is the chain of keys it leaves to its caller, and key is the key
\* its message names when a key is missing or extra.
NoKey == [t |-> "Null", v |-> 0]

Same(keyChain) == [status |-> "same", keyChain |-> keyChain, key |-> NoKey]

Differ(what, keyChain) ==
    [status |-> what, keyChain |-> keyChain, key |-> NoKey]

DifferAt(what, keyChain, key) ==
    [status |-> what, keyChain |-> keyChain, key |-> key]

RECURSIVE CompareLuaTables(_, _, _)
RECURSIVE CompareKeys(_, _, _, _, _)

\* The mutant of CompareKeys: the keys of rhs that no key of lhs matched are
\* not looked at.
CompareKeysIgnoresExtra(lhs, rhs, lhsKeys, rhsKeys, keyChain) ==
    IF lhsKeys = {}
    THEN Same(keyChain)
    ELSE
        LET lhsKey == FirstKey(lhsKeys)
            key == LuaValueFromJsonValue(lhsKey)
            lhsValue == lua_gettable(lhs, key)
            rhsValue == lua_gettable(rhs, key)
        IN  IF lhsKey \notin rhsKeys
            THEN Differ("missing", keyChain)
            ELSE IF lua_istable(rhsValue) /\ lua_istable(lhsValue)
            THEN LET sub == CompareLuaTables(lhsValue, rhsValue,
                                             Append(keyChain, lhsKey))
                 IN  IF sub.status = "same"
                     THEN CompareKeys(lhs, rhs, lhsKeys \ {lhsKey},
                                      rhsKeys \ {lhsKey}, keyChain)
                     ELSE sub
            ELSE IF ~lua_compare(rhsValue, lhsValue, "LUA_OPEQ")
            THEN Differ("mismatch", Append(keyChain, lhsKey))
            ELSE CompareKeys(lhs, rhs, lhsKeys \ {lhsKey},
                             rhsKeys \ {lhsKey}, keyChain)

\* The mutant of CompareKeys: a key of rhs that matched a key of lhs is not
\* taken out of rhsKeys.
CompareKeysKeepsRhsKeys(lhs, rhs, lhsKeys, rhsKeys, keyChain) ==
    IF lhsKeys = {}
    THEN IF rhsKeys = {} THEN Same(keyChain) ELSE Differ("extra", keyChain)
    ELSE
        LET lhsKey == FirstKey(lhsKeys)
            key == LuaValueFromJsonValue(lhsKey)
            lhsValue == lua_gettable(lhs, key)
            rhsValue == lua_gettable(rhs, key)
        IN  IF lhsKey \notin rhsKeys
            THEN Differ("missing", keyChain)
            ELSE IF lua_istable(rhsValue) /\ lua_istable(lhsValue)
            THEN LET sub == CompareLuaTables(lhsValue, rhsValue,
                                             Append(keyChain, lhsKey))
                 IN  IF sub.status = "same"
                     THEN CompareKeys(lhs, rhs, lhsKeys \ {lhsKey},
                                      rhsKeys, keyChain)
                     ELSE sub
            ELSE IF ~lua_compare(rhsValue, lhsValue, "LUA_OPEQ")
            THEN Differ("mismatch", Append(keyChain, lhsKey))
            ELSE CompareKeys(lhs, rhs, lhsKeys \ {lhsKey},
                             rhsKeys, keyChain)

\* The loop of CompareLuaTables over the keys of lhs that are left, and the
\* check of the keys of rhs that no key of lhs matched.
CompareKeys(lhs, rhs, lhsKeys, rhsKeys, keyChain) ==
    IF lhsKeys = {}
    THEN IF rhsKeys = {} THEN Same(keyChain)
         ELSE DifferAt("extra", keyChain, FirstKey(rhsKeys))
    ELSE
        LET lhsKey == FirstKey(lhsKeys)
            key == LuaValueFromJsonValue(lhsKey)
            lhsValue == lua_gettable(lhs, key)
            rhsValue == lua_gettable(rhs, key)
        IN  IF lhsKey \notin rhsKeys
            THEN DifferAt("missing", keyChain, lhsKey)
            ELSE IF lua_istable(rhsValue) /\ lua_istable(lhsValue)
            THEN LET sub == CompareLuaTables(lhsValue, rhsValue,
                                             Append(keyChain, lhsKey))
                 IN  IF sub.status = "same"
                     THEN CompareKeys(lhs, rhs, lhsKeys \ {lhsKey},
                                      rhsKeys \ {lhsKey}, keyChain)
                     ELSE sub
            ELSE IF ~lua_compare(rhsValue, lhsValue, "LUA_OPEQ")
            THEN Differ("mismatch", Append(keyChain, lhsKey))
            ELSE CompareKeys(lhs, rhs, lhsKeys \ {lhsKey},
                             rhsKeys \ {lhsKey}, keyChain)

\* status: "same" (the empty string of the code), "missing", "extra",
\* "mismatch", or "error" when the enumeration of the keys raised.
CompareLuaTables(lhs, rhs, keyChain) ==
    IF EnumerateKeysRaises(lhs) \/ EnumerateKeysRaises(rhs)
    THEN Differ("error", keyChain)
    ELSE CompareKeys(lhs, rhs, EnumerateKeys(lhs), EnumerateKeys(rhs),
                     keyChain)

\* ----------------------------------------------------- expectation API

Kinds == {"eq", "ne", "lt", "le", "gt", "ge", "true", "false"}

\* What one call of an assert_ or expect_ function does:
\*   raise     the call ends in a Lua error (luaL_error, or an error raised
\*             by the comparison itself);
\*   unmet     the function found its expectation not met;
\*   flag      it set currentTestFailed;
\*   flagFirst it set currentTestFailed before its first call of
\*             errorMessageDelegate;
\*   msgs      what it handed to errorMessageDelegate, in order.
Effect(raise, unmet, flag, flagFirst, msgs) ==
    [raise |-> raise, unmet |-> unmet, flag |-> flag,
     flagFirst |-> flagFirst, msgs |-> msgs]

\* The comparison of the call raises before the function decides anything.
ComparisonRaises(kind, a, b) ==
    CASE kind \in {"eq", "ne"} ->
            /\ lua_istable(a) /\ lua_istable(b)
            /\ CompareLuaTables(a, b, <<>>).status = "error"
      [] kind \in {"ge", "lt"} -> CompareRaises(a, b, "LUA_OPLT")
      [] kind \in {"gt", "le"} -> CompareRaises(a, b, "LUA_OPLE")
      [] OTHER -> FALSE

\* The conditions under which LuaAssertEq, LuaAssertFalse, LuaAssertGe,
\* LuaAssertGt, LuaAssertLe, LuaAssertLt, LuaAssertNe and LuaAssertTrue call
\* luaL_error.
AssertUnmet(kind, a, b) ==
    CASE kind = "eq" ->
            IF lua_istable(a) /\ lua_istable(b)
            THEN CompareLuaTables(a, b, <<>>).status # "same"
            ELSE ~lua_compare(a, b, "LUA_OPEQ")
      [] kind = "false" -> lua_toboolean(a)
      [] kind = "ge" -> lua_compare(a, b, "LUA_OPLT")
      [] kind = "gt" -> lua_compare(a, b, "LUA_OPLE")
      [] kind = "le" -> ~lua_compare(a, b, "LUA_OPLE")
      [] kind = "lt" -> ~lua_compare(a, b, "LUA_OPLT")
      [] kind = "ne" ->
            IF lua_istable(a) /\ lua_istable(b)
            THEN CompareLuaTables(a, b, <<>>).status = "same"
            ELSE lua_compare(a, b, "LUA_OPEQ")
      [] kind = "true" -> ~lua_toboolean(a)

\* The mutant of LuaAssert: the failure is found, no error is raised.
LuaAssertNoError(kind, a, b) ==
    IF ComparisonRaises(kind, a, b)
    THEN Effect(TRUE, FALSE, FALSE, FALSE, <<>>)
    ELSE Effect(FALSE, AssertUnmet(kind, a, b), FALSE, FALSE, <<>>)

\* The mutant of LuaAssert: the failure is handed to errorMessageDelegate
\* before the error is raised.
LuaAssertReports(kind, a, b) ==
    IF ComparisonRaises(kind, a, b)
    THEN Effect(TRUE, FALSE, FALSE, FALSE, <<>>)
    ELSE LET unmet == AssertUnmet(kind, a, b)
         IN  Effect(unmet, unmet, FALSE, FALSE,
                    IF unmet THEN <<"failure">> ELSE <<>>)

\* An assert_ function: luaL_error when the expectation is not met; no
\* assert_ function writes currentTestFailed or calls errorMessageDelegate.
LuaAssert(kind, a, b) ==
    IF ComparisonRaises(kind, a, b)
    THEN Effect(TRUE, FALSE, FALSE, FALSE, <<>>)
    ELSE LET unmet == AssertUnmet(kind, a, b)
         IN  Effect(unmet, unmet, FALSE, FALSE, <<>>)

\* The conditions under which LuaExpectEq, LuaExpectFalse, LuaExpectGe,
\* LuaExpectGt, LuaExpectLe, LuaExpectLt, LuaExpectNe and LuaExpectTrue
\* report a failure.
ExpectUnmet(kind, a, b) ==
    CASE kind = "eq" ->
            IF lua_istable(a) /\ lua_istable(b)
            THEN CompareLuaTables(a, b, <<>>).status # "same"
            ELSE ~lua_compare(a, b, "LUA_OPEQ")
      [] kind = "false" -> lua_toboolean(a)
      [] kind = "ge" -> lua_compare(a, b, "LUA_OPLT")
      [] kind = "gt" -> lua_compare(a, b, "LUA_OPLE")
      [] kind = "le" -> ~lua_compare(a, b, "LUA_OPLE")
      [] kind = "lt" -> ~lua_compare(a, b, "LUA_OPLT")
      [] kind = "ne" ->
            IF lua_istable(a) /\ lua_istable(b)
            THEN CompareLuaTables(a, b, <<>>).status = "same"
            ELSE lua_compare(a, b, "LUA_OPEQ")
      [] kind = "true" -> ~lua_toboolean(a)

\* What a failing expect_ function hands to errorMessageDelegate: its
\* message and then the traceback; LuaExpectNe on two tables hands over the
\* message alone.
ExpectMessages(kind, a, b) ==
    IF kind = "ne" /\ lua_istable(a) /\ lua_istable(b)
    THEN <<"failure">>
    ELSE <<"failure", "traceback">>

\* LuaExpectEq sets currentTestFailed after its first message, the other
\* seven functions before it.
ExpectFlagFirst(kind) == kind # "eq"

\* The mutant of LuaExpect: the failure is reported and then raised as an
\* error, as the assert_ functions do.
LuaExpectThenError(kind, a, b) ==
    IF ComparisonRaises(kind, a, b)
    THEN Effect(TRUE, FALSE, FALSE, FALSE, <<>>)
    ELSE LET unmet == ExpectUnmet(kind, a, b)
         IN  Effect(unmet, unmet, unmet, ExpectFlagFirst(kind),
                    IF unmet THEN ExpectMessages(kind, a, b) ELSE <<>>)

\* An expect_ function: on a failure it sets currentTestFailed, calls
\* errorMessageDelegate and returns 0.
LuaExpect(kind, a, b) ==
    IF ComparisonRaises(kind, a, b)
    THEN Effect(TRUE, FALSE, FALSE, FALSE, <<>>)
    ELSE LET unmet == ExpectUnmet(kind, a, b)
         IN  Effect(FALSE, unmet, unmet, ExpectFlagFirst(kind),
                    IF unmet THEN ExpectMessages(kind, a, b) ELSE <<>>)

\* ------------------------------------------------------- script files

\* The script files of the project: a path and the text read from it.
\* Text "t1" registers S1.T1 twice, "t2" registers S1.T1, S1.T2 and S2.T1,
\* and "t3" does not compile.
Files ==
    { [path |-> "tests/a.lua", text |-> "t1"],
      [path |-> "b.lua", text |-> "t2"],
      [path |-> "c.lua", text |-> "t3"] }

SuiteNames == {"S1", "S2"}
TestNames == {"T1", "T2"}

Reg(suite, test, line) == [suite |-> suite, test |-> test, linedefined |-> line]

\* The calls of moonunit:test the top-level code of a text makes, in order,
\* each with the line at which its function is defined.
RegsOf(text) ==
    CASE text = "t1" -> <<Reg("S1", "T1", 1), Reg("S1", "T1", 5)>>
      [] text = "t2" -> <<Reg("S1", "T1", 2), Reg("S1", "T2", 4),
                          Reg("S2", "T1", 6)>>
      [] OTHER -> <<>>

\* What lua_load answers for a text: a text that does not compile gives
\* LUA_ERRSYNTAX, any other text LUA_OK unless memory runs out.
LoadResults(text) ==
    IF text = "t3" THEN {"LUA_ERRSYNTAX"}
    ELSE {"LUA_OK", "LUA_ERRMEM", "LUA_ERRGCMM"}

\* How a run of the top-level code of a script ends (it depends on what the
\* script reads from its environment): it returns, it raises an error with
\* a message, or it raises an error whose value is nil.
TopResults == {"ok", "error", "errnil"}

\* The operands of the expectation calls of the scripts.
OperandPairs ==
    { <<LInt(1), LInt(1)>>, <<LInt(1), LInt(2)>>, <<LInt(2), LInt(1)>>,
      <<LInt(1), LStr("a")>>, <<LNil, LInt(1)>>, <<TabA, TabA>>,
      <<TabA, TabB>>, <<TabN, TabN>>, <<TabF, TabA>> }

\* What becomes of a C++ exception thrown below lua_pcall, whose frames are
\* C frames: it unwinds to the caller of the runner, or the process ends.
ThrowOutcomes == {"unwind", "terminate"}

\* ------------------------------------------------------------- registry

\* The mutant of LuaTest: a pair that is registered already is kept.
LuaTestKeepFirst(registry, reg) ==
    LET suiteTable == IF reg.suite \in DOMAIN registry
                      THEN registry[reg.suite] ELSE EmptyMap
    IN  IF reg.test \in DOMAIN suiteTable THEN registry
        ELSE MapPut(registry, reg.suite,
                    MapPut(suiteTable, reg.test,
                           [linedefined |-> reg.linedefined]))

\* moonunit:test(suite, test, fn): the table of the suite is made when it
\* is missing, and fn is stored in it under the name of the test.
LuaTest(registry, reg) ==
    LET suiteTable == IF reg.suite \in DOMAIN registry
                      THEN registry[reg.suite] ELSE EmptyMap
    IN  MapPut(registry, reg.suite,
               MapPut(suiteTable, reg.test,
                      [linedefined |-> reg.linedefined]))

RECURSIVE RunRegs(_, _)
\* The registry after the calls of moonunit:test of the top-level code.
RunRegs(registry, regs) ==
    IF regs = <<>> THEN registry
    ELSE RunRegs(LuaTest(registry, Head(regs)), Tail(regs))

\* The mutant of FindTests: a suite of the registry takes the place of the
\* suite of the same name in testSuites.
FindTestsReplacesSuite(ts, registry, file, filePath) ==
    [suite \in DOMAIN ts \cup DOMAIN registry |->
        IF suite \in DOMAIN registry
        THEN [test \in DOMAIN registry[suite] |->
                [file |-> file, filePath |-> filePath,
                 lineNumber |-> registry[suite][test].linedefined]]
        ELSE ts[suite]]

\* FindTests: every test of every suite of the registry is written into
\* testSuites, over the entry of the same name if there is one.
FindTests(ts, registry, file, filePath) ==
    [suite \in DOMAIN ts \cup DOMAIN registry |->
        [test \in (IF suite \in DOMAIN ts THEN DOMAIN ts[suite] ELSE {})
                  \cup (IF suite \in DOMAIN registry
                        THEN DOMAIN registry[suite] ELSE {}) |->
            IF suite \in DOMAIN registry /\ test \in DOMAIN registry[suite]
            THEN [file |-> file, filePath |-> filePath,
                  lineNumber |-> registry[suite][test].linedefined]
            ELSE ts[suite][test]]]

\* ---------------------------------------------------------- interpreters

\* The mutant of lua_newstate: the interpreter made last is handed out again.
lua_newstate_again(h) == IF Len(h) = 0 THEN 1 ELSE Len(h)

\* lua_newstate: an interpreter that did not exist before.
lua_newstate(h) == Len(h) + 1

\* The reference luaL_ref gives to the first table put into the registry of
\* a new interpreter.
luaL_ref == 3

\* The interpreters after interpreter id was set up for session s and the
\* top-level code of a script assigned its global variable in it.  A global
\* variable is written as the number of the session that assigned it.
OpenState(h, id, s, registry) ==
    [i \in 1..(IF id > Len(h) THEN id ELSE Len(h)) |->
        IF i = id
        THEN [open |-> TRUE,
              globals |-> (IF i <= Len(h) THEN h[i].globals ELSE {}) \cup {s},
              registry |-> registry,
              sessions |-> (IF i <= Len(h) THEN h[i].sessions ELSE {}) \cup {s}]
        ELSE h[i]]

\* The mutant of lua_close: the registry of the interpreter stays.
lua_close_keeps_registry(h, id) ==
    [h EXCEPT ![id] = [open |-> FALSE, globals |-> {},
                       registry |-> @.registry, sessions |-> @.sessions]]

\* luaL_unref and lua_close: the registry and the global variables of the
\* interpreter are gone.
lua_close(h, id) ==
    [h EXCEPT ![id] = [open |-> FALSE, globals |-> {},
                       registry |-> EmptyMap, sessions |-> @.sessions]]

\* ----------------------------------------------------- working directory

\* A path is the sequence of its pieces, a piece being a name or a '/'.
PathPieces(path) ==
    CASE path = "tests/a.lua" -> <<"tests", "/", "a.lua">>
      [] path = "b.lua" -> <<"b.lua">>
      [] OTHER -> <<path>>

\* The working directory in which the runner is started, and the
\* directories there are.
ProjectDirectory == <<"/", "project">>

Directories == {ProjectDirectory, ProjectDirectory \o <<"/", "tests">>}

\* No call of WithScript is running.
NoDirectory == <<>>

\* ParentFolderPath: the path up to its last '/', the whole path when it
\* has none.
ParentFolderPath(path) ==
    IF \E i \in 1..Len(path) : path[i] = "/"
    THEN SubSeq(path, 1,
                (CHOOSE i \in 1..Len(path) :
                    /\ path[i] = "/"
                    /\ \A j \in (i + 1)..Len(path) : path[j] # "/") - 1)
    ELSE path

\* SystemAbstractions::File::SetWorkingDirectory: the working directory
\* after the call; it is the one before when the path names no directory.
SetWorkingDirectory(wd, path) ==
    LET target == IF path # <<>> /\ path[1] = "/" THEN path
                  ELSE wd \o <<"/">> \o path
    IN  IF target \in Directories THEN target ELSE wd

\* The working directory after a call of WithScript that returns.
WithScriptReturns(wd, filePath) ==
    SetWorkingDirectory(
        SetWorkingDirectory(wd, ParentFolderPath(PathPieces(filePath))), wd)

\* The working directory while WithScript runs the script and its fn; it
\* is also the one after a call of WithScript that an exception leaves, the
\* second SetWorkingDirectory being not reached.
WithScriptEnters(wd, filePath) ==
    SetWorkingDirectory(wd, ParentFolderPath(PathPieces(filePath)))

\* ------------------------------------------------------------ WithScript

\* WithScript: the error message it returns ("" for none) and whether it
\* called fn, from the answer of lua_load and the end of the top-level code.
WithScript(load, top) ==
    CASE load = "LUA_OK" /\ top = "ok" ->
            [errorMessage |-> "", fnCalled |-> TRUE]
      [] load = "LUA_OK" /\ top = "error" ->
            [errorMessage |-> "lua error", fnCalled |-> FALSE]
      [] load = "LUA_OK" /\ top = "errnil" ->
            [errorMessage |-> "", fnCalled |-> FALSE]
      [] load = "LUA_ERRSYNTAX" ->
            [errorMessage |-> "syntax error", fnCalled |-> FALSE]
      [] load = "LUA_ERRMEM" ->
            [errorMessage |-> "LUA_ERRMEM", fnCalled |-> FALSE]
      [] load = "LUA_ERRGCMM" ->
            [errorMessage |-> "LUA_ERRGCMM", fnCalled |-> FALSE]

\* ---------------------------------------------------------------- report

RECURSIVE SumSizes(_, _)
\* The loop of GetReport that adds up the sizes of the suites.
SumSizes(ts, suites) ==
    IF suites = {} THEN 0
    ELSE LET suite == CHOOSE x \in suites : TRUE
         IN  Cardinality(DOMAIN ts[suite]) + SumSizes(ts, suites \ {suite})

\* The mutant of GetReport: the root counts the suites, not their tests.
GetReportCountsSuites(ts) ==
    [tests |-> Cardinality(DOMAIN ts),
     testsuites |->
        [suite \in DOMAIN ts |->
            [tests |-> Cardinality(DOMAIN ts[suite]),
             testcases |->
                { [name |-> test, file |-> ts[suite][test].filePath,
                   line |-> ts[suite][test].lineNumber] :
                  test \in DOMAIN ts[suite] }]]]

\* GetReport: the root element with its count of tests, one element for
\* each suite with its count of tests, and below it one element for each
\* test with its name, file and line.
GetReport(ts) ==
    [tests |-> SumSizes(ts, DOMAIN ts),
     testsuites |->
        [suite \in DOMAIN ts |->
            [tests |-> Cardinality(DOMAIN ts[suite]),
             testcases |->
                { [name |-> test, file |-> ts[suite][test].filePath,
                   line |-> ts[suite][test].lineNumber] :
                  test \in DOMAIN ts[suite] }]]]

\* GetTestSuiteNames: the names of the suites of testSuites.
GetTestSuiteNames(ts) == DOMAIN ts

\* GetTestNames: the names of the tests of a suite, none for a suite that
\* testSuites does not hold.
GetTestNames(ts, testSuiteName) ==
    IF testSuiteName \notin DOMAIN ts THEN {} ELSE DOMAIN ts[testSuiteName]

\* ----------------------------------------------------------------- state

VARIABLES
    lua,                    \* Impl::lua: the interpreter, 0 for nullptr
    luaRegistryIndex,       \* Impl::luaRegistryIndex
    testSuites,             \* Impl::testSuites: suite -> test -> Test
    currentTestFailed,      \* Impl::currentTestFailed
    errorMessageDelegate,   \* Impl::errorMessageDelegate: "empty" or "caller"
    heap,                   \* the interpreters made so far, by their number
    session,                \* the number of calls of WithLua so far
    pc,                     \* "idle", "body" (lua_pcall of a test function
                            \* is running) or "terminated"
    cur,                    \* the suite and test RunTest is running, and
                            \* currentTestFailed as RunTest found it
    idx,                    \* the statements of the body executed so far
    bodyLen,                \* the number of statements of the body
    run,                    \* what happened in the body so far
    sink,                   \* what the caller's delegate received in the
                            \* operation that runs or ran last
    last,                   \* how the operation that ran last ended
    lastReg,                \* (suite, test) -> the Test of the last call of
                            \* moonunit:test for the pair in a loaded script
    execDone,               \* a RunTest ran the top-level code of its script
                            \* and its body, and is over
    probe,                  \* the operands and the outcome of one call of
                            \* CompareLuaTables or of an assert_ or expect_
                            \* function on its own (CallSpec)
    cli,                    \* main: the filter of the command line, the
                            \* tests selected by it and the tests handed to
                            \* RunTest (MainSpec)
    workingDirectory,       \* the working directory of the process
    originalWorkingDirectory, \* WithScript::originalWorkingDirectory of
                            \* the call of WithScript that is running
    cmp,                    \* a call of CompareLuaTables on tables that
                            \* refer to tables, frame by frame (CompareSpec)
    cfg                     \* a call of Runner::Configure, frame by frame
                            \* (ConfigureSpec)

vars ==
    <<lua, luaRegistryIndex, testSuites, currentTestFailed,
      errorMessageDelegate, heap, session, pc, cur, idx, bodyLen, run, sink,
      last, lastReg, execDone, probe, cli, workingDirectory,
      originalWorkingDirectory, cmp, cfg>>

NoTest == [suite |-> "", test |-> "", failedBefore |-> FALSE]

\* No comparison frame by frame is running.
NoCmp == [state |-> "none", objects |-> <<>>, stack |-> <<>>, status |-> ""]

\* No configuration is running.
NoCfg ==
    [state |-> "none", layout |-> EmptyMap, stack |-> <<>>, loaded |-> {}]

\* main is not running.
NoCli ==
    [phase |-> "none", loadErrors |-> {}, filter |-> <<>>,
     listTests |-> FALSE, selectedTests |-> EmptyMap, ran |-> {},
     failed |-> {}, success |-> TRUE]

\* No call on its own was made.
NoProbe ==
    [called |-> "none", kind |-> "", lhs |-> LNil, rhs |-> LNil,
     result |-> EmptyMap]

NoRun == [expectUnmet |-> FALSE, assertUnmet |-> "none"]

\* How an operation ended.  ret is "normal" or "exception"; for RunTest,
\* found says the test was in testSuites, passed is the value returned,
\* reload is "ok" or "error", bodyExit is "normal" or "abnormal", abortBy
\* names the statement that ended the body, expectUnmet and assertUnmet say
\* that an expect_ or an assert_ call of the body found its expectation not
\* met, and left is the number of statements of the body never executed;
\* failedBefore is currentTestFailed as the RunTest that ran a body found
\* it; for LoadTestSuite, path is the path of the file.
NoResult ==
    [op |-> "none", path |-> "", ret |-> "normal", found |-> FALSE,
     failedBefore |-> FALSE, passed |-> FALSE,
     reload |-> "none", bodyExit |-> "none", abortBy |-> "none",
     expectUnmet |-> FALSE, assertUnmet |-> "none", left |-> 0,
     report |-> EmptyMap]

Init ==
    /\ lua = 0
    /\ luaRegistryIndex = 0
    /\ testSuites = EmptyMap
    /\ currentTestFailed = FALSE
    /\ errorMessageDelegate = "empty"
    /\ heap = <<>>
    /\ session = 0
    /\ pc = "idle"
    /\ cur = NoTest
    /\ idx = 0
    /\ bodyLen = 0
    /\ run = NoRun
    /\ sink = <<>>
    /\ last = NoResult
    /\ lastReg = EmptyMap
    /\ execDone = FALSE
    /\ probe = NoProbe
    /\ cli = NoCli
    /\ workingDirectory = ProjectDirectory
    /\ originalWorkingDirectory = NoDirectory
    /\ cmp = NoCmp
    /\ cfg = NoCfg

RECURSIVE LastRegs(_, _, _)
\* lastReg after the calls of moonunit:test of a loaded script, in order.
LastRegs(m, regs, f) ==
    IF regs = <<>> THEN m
    ELSE LastRegs(MapPut(m, <<Head(regs).suite, Head(regs).test>>,
                         [file |-> f.text, filePath |-> f.path,
                          lineNumber |-> Head(regs).linedefined]),
                  Tail(regs), f)

\* ------------------------------------------------------------- discovery

\* LoadTestSuite of a file that cannot be opened or read.
LoadTestSuiteUnreadable(f, io) ==
    /\ pc = "idle"
    /\ io \in {"ERROR: Unable to open Lua script file",
               "ERROR: Unable to read Lua script file"}
    /\ sink' = <<io>>
    /\ last' = [NoResult EXCEPT !.op = "LoadTestSuite", !.path = f.path]
    /\ UNCHANGED <<cmp, cfg, workingDirectory, originalWorkingDirectory, cli,
                   probe, lua, luaRegistryIndex, testSuites,
                   currentTestFailed, errorMessageDelegate, heap, session, pc,
                   cur, idx, bodyLen, run, lastReg, execDone>>

\* LoadTestSuite of a script that does not load or whose top-level code
\* raises an error: WithScript does not call FindTests, its error message is
\* reported when it is not empty, and WithLua closes the interpreter.
LoadTestSuiteFails(f, load, top) ==
    /\ pc = "idle"
    /\ session < MaxSessions
    /\ load \in LoadResults(f.text)
    /\ ~WithScript(load, top).fnCalled
    /\ LET id == lua_newstate(heap)
       IN  heap' = lua_close(OpenState(heap, id, session + 1, EmptyMap), id)
    /\ session' = session + 1
    /\ lua' = 0
    /\ luaRegistryIndex' = 0
    /\ sink' = IF WithScript(load, top).errorMessage # ""
               THEN <<"ERROR: Unable to load Lua script file">> ELSE <<>>
    /\ last' = [NoResult EXCEPT !.op = "LoadTestSuite", !.path = f.path,
                                !.reload = "error"]
    /\ workingDirectory' = WithScriptReturns(workingDirectory, f.path)
    /\ UNCHANGED <<cmp, cfg, originalWorkingDirectory, cli, probe, testSuites,
                   currentTestFailed, errorMessageDelegate, pc, cur, idx,
                   bodyLen, run, lastReg, execDone>>

\* LoadTestSuite of a script whose top-level code returns: FindTests.
LoadTestSuiteLoads(f) ==
    /\ pc = "idle"
    /\ session < MaxSessions
    /\ "LUA_OK" \in LoadResults(f.text)
    /\ WithScript("LUA_OK", "ok").fnCalled
    /\ LET id == lua_newstate(heap)
           registry == RunRegs(EmptyMap, RegsOf(f.text))
       IN  /\ heap' = lua_close(OpenState(heap, id, session + 1, registry), id)
           /\ testSuites' = FindTests(testSuites, registry, f.text, f.path)
    /\ lastReg' = LastRegs(lastReg, RegsOf(f.text), f)
    /\ session' = session + 1
    /\ lua' = 0
    /\ luaRegistryIndex' = 0
    /\ sink' = <<>>
    /\ last' = [NoResult EXCEPT !.op = "LoadTestSuite", !.path = f.path,
                                !.reload = "ok"]
    /\ workingDirectory' = WithScriptReturns(workingDirectory, f.path)
    /\ UNCHANGED <<cmp, cfg, originalWorkingDirectory, cli, probe,
                   currentTestFailed, errorMessageDelegate, pc, cur, idx,
                   bodyLen, run, execDone>>

\* LoadTestSuite of a script whose top-level code makes an expect_ call that
\* fails: errorMessageDelegate of Impl is empty, the call of it throws
\* std::bad_function_call, and nothing between the call and the caller of
\* LoadTestSuite catches it.
LoadTestSuiteThrows(f, kind, ab, out) ==
    /\ pc = "idle"
    /\ session < MaxSessions
    /\ "LUA_OK" \in LoadResults(f.text)
    /\ errorMessageDelegate = "empty"
    /\ LuaExpect(kind, ab[1], ab[2]).msgs # <<>>
    /\ heap' = OpenState(heap, lua_newstate(heap), session + 1, EmptyMap)
    /\ session' = session + 1
    /\ lua' = lua_newstate(heap)
    /\ luaRegistryIndex' = luaL_ref
    /\ currentTestFailed' =
          (currentTestFailed \/ LuaExpect(kind, ab[1], ab[2]).flagFirst)
    /\ sink' = <<>>
    /\ last' = [NoResult EXCEPT !.op = "LoadTestSuite", !.path = f.path,
                                !.ret = "exception"]
    /\ pc' = IF out = "terminate" THEN "terminated" ELSE "idle"
    /\ workingDirectory' = WithScriptEnters(workingDirectory, f.path)
    /\ UNCHANGED <<cmp, cfg, originalWorkingDirectory, cli, probe, testSuites,
                   errorMessageDelegate, cur, idx, bodyLen, run, lastReg,
                   execDone>>

\* ------------------------------------------------------------- execution

\* The two look-ups at the head of RunTest.
Found(ts, suite, test) == suite \in DOMAIN ts /\ test \in DOMAIN ts[suite]

\* The mutant of NotFoundMessages: a missing test of a suite that exists is
\* not reported.
NotFoundMessagesSuiteOnly(ts, suite, test) ==
    IF suite \notin DOMAIN ts
    THEN <<"ERROR: No test suite found">>
    ELSE <<>>

\* What RunTest reports when one of the look-ups fails.
NotFoundMessages(ts, suite, test) ==
    IF suite \notin DOMAIN ts
    THEN <<"ERROR: No test suite found">>
    ELSE <<"ERROR: No test found in test suite">>

\* The value RunTest returns.
RunTestReturn(failed) == ~failed

\* RunTest of a suite or a test that testSuites does not hold.
RunTestNotFound(suite, test) ==
    /\ pc = "idle"
    /\ ~Found(testSuites, suite, test)
    /\ sink' = NotFoundMessages(testSuites, suite, test)
    /\ last' = [NoResult EXCEPT !.op = "RunTest", !.passed = FALSE]
    /\ UNCHANGED <<cmp, cfg, workingDirectory, originalWorkingDirectory, cli,
                   probe, lua, luaRegistryIndex, testSuites,
                   currentTestFailed, errorMessageDelegate, heap, session, pc,
                   cur, idx, bodyLen, run, lastReg, execDone>>

\* RunTest of a test whose script does not load again, or whose top-level
\* code raises an error this time: WithScript does not call the function
\* that runs the test; currentTestFailed is set and the error reported when
\* the error message of WithScript is not empty.
RunTestReloadFails(suite, test, load, top) ==
    /\ pc = "idle"
    /\ session < MaxSessions
    /\ Found(testSuites, suite, test)
    /\ load \in LoadResults(testSuites[suite][test].file)
    /\ ~WithScript(load, top).fnCalled
    /\ LET id == lua_newstate(heap)
           failed == WithScript(load, top).errorMessage # ""
       IN  /\ heap' = lua_close(OpenState(heap, id, session + 1, EmptyMap), id)
           /\ currentTestFailed' = failed
           /\ sink' = IF failed
                      THEN <<"ERROR: Unable to load Lua script file">>
                      ELSE <<>>
           /\ last' = [NoResult EXCEPT !.op = "RunTest", !.found = TRUE,
                                       !.passed = RunTestReturn(failed),
                                       !.reload = "error"]
    /\ session' = session + 1
    /\ lua' = 0
    /\ luaRegistryIndex' = 0
    /\ workingDirectory' =
          WithScriptReturns(workingDirectory, testSuites[suite][test].filePath)
    /\ UNCHANGED <<cmp, cfg, originalWorkingDirectory, cli, probe, testSuites,
                   errorMessageDelegate, pc, cur, idx, bodyLen, run, lastReg,
                   execDone>>

\* RunTest of a test whose top-level code makes, this time, an expect_ call
\* that fails: errorMessageDelegate of Impl is still empty, and the call of
\* it throws std::bad_function_call.
RunTestReloadThrows(suite, test, kind, ab, out) ==
    /\ pc = "idle"
    /\ session < MaxSessions
    /\ Found(testSuites, suite, test)
    /\ errorMessageDelegate = "empty"
    /\ LuaExpect(kind, ab[1], ab[2]).msgs # <<>>
    /\ heap' = OpenState(heap, lua_newstate(heap), session + 1, EmptyMap)
    /\ session' = session + 1
    /\ lua' = lua_newstate(heap)
    /\ luaRegistryIndex' = luaL_ref
    /\ currentTestFailed' = LuaExpect(kind, ab[1], ab[2]).flagFirst
    /\ sink' = <<>>
    /\ last' = [NoResult EXCEPT !.op = "RunTest", !.found = TRUE,
                                !.ret = "exception"]
    /\ pc' = IF out = "terminate" THEN "terminated" ELSE "idle"
    /\ workingDirectory' =
          WithScriptEnters(workingDirectory, testSuites[suite][test].filePath)
    /\ UNCHANGED <<cmp, cfg, originalWorkingDirectory, cli, probe, testSuites,
                   errorMessageDelegate, cur, idx, bodyLen, run, lastReg,
                   execDone>>

\* The mutant of RunTestInvoke: currentTestFailed is left as it is found.
RunTestInvokeKeepsFlag(suite, test, len) ==
    /\ pc = "idle"
    /\ session < MaxSessions
    /\ Found(testSuites, suite, test)
    /\ "LUA_OK" \in LoadResults(testSuites[suite][test].file)
    /\ WithScript("LUA_OK", "ok").fnCalled
    /\ len \in 0..MaxBodyLen
    /\ LET id == lua_newstate(heap)
           registry == RunRegs(EmptyMap, RegsOf(testSuites[suite][test].file))
       IN  /\ Found(registry, suite, test)
           /\ heap' = OpenState(heap, id, session + 1, registry)
           /\ lua' = id
    /\ session' = session + 1
    /\ luaRegistryIndex' = luaL_ref
    /\ currentTestFailed' = currentTestFailed
    /\ errorMessageDelegate' = "caller"
    /\ pc' = "body"
    /\ cur' = [suite |-> suite, test |-> test,
               failedBefore |-> currentTestFailed]
    /\ idx' = 0
    /\ bodyLen' = len
    /\ run' = NoRun
    /\ sink' = <<>>
    /\ last' = NoResult
    /\ originalWorkingDirectory' = workingDirectory
    /\ workingDirectory' =
          WithScriptEnters(workingDirectory, testSuites[suite][test].filePath)
    /\ UNCHANGED <<cmp, cfg, cli, probe, testSuites, lastReg, execDone>>

\* RunTest of a test whose script loads again: the top-level code registers
\* the tests of the script in the new interpreter, errorMessageDelegate is
\* set, the function registered for (suite, test) is looked up and lua_pcall
\* enters it.
RunTestInvoke(suite, test, len) ==
    /\ pc = "idle"
    /\ session < MaxSessions
    /\ Found(testSuites, suite, test)
    /\ "LUA_OK" \in LoadResults(testSuites[suite][test].file)
    /\ WithScript("LUA_OK", "ok").fnCalled
    /\ len \in 0..MaxBodyLen
    /\ LET id == lua_newstate(heap)
           registry == RunRegs(EmptyMap, RegsOf(testSuites[suite][test].file))
       IN  /\ Found(registry, suite, test)
           /\ heap' = OpenState(heap, id, session + 1, registry)
           /\ lua' = id
    /\ session' = session + 1
    /\ luaRegistryIndex' = luaL_ref
    /\ currentTestFailed' = FALSE
    /\ errorMessageDelegate' = "caller"
    /\ pc' = "body"
    /\ cur' = [suite |-> suite, test |-> test,
               failedBefore |-> currentTestFailed]
    /\ idx' = 0
    /\ bodyLen' = len
    /\ run' = NoRun
    /\ sink' = <<>>
    /\ last' = NoResult
    /\ originalWorkingDirectory' = workingDirectory
    /\ workingDirectory' =
          WithScriptEnters(workingDirectory, testSuites[suite][test].filePath)
    /\ UNCHANGED <<cmp, cfg, cli, probe, testSuites, lastReg, execDone>>

\* The mutant of Leave: the tests the script registered in the interpreter
\* of the run are written into testSuites again, as FindTests does.
LeaveFindsTests(failed, msgs, exit, by, r) ==
    /\ errorMessageDelegate' = "empty"
    /\ currentTestFailed' = failed
    /\ sink' = sink \o msgs
    /\ heap' = lua_close(heap, lua)
    /\ lua' = 0
    /\ luaRegistryIndex' = 0
    /\ pc' = "idle"
    /\ cur' = NoTest
    /\ idx' = 0
    /\ bodyLen' = 0
    /\ run' = NoRun
    /\ last' = [NoResult EXCEPT !.op = "RunTest", !.found = TRUE,
                                !.failedBefore = cur.failedBefore,
                                !.passed = RunTestReturn(failed),
                                !.reload = "ok", !.bodyExit = exit,
                                !.abortBy = by,
                                !.expectUnmet = r.expectUnmet,
                                !.assertUnmet = r.assertUnmet,
                                !.left = IF exit = "normal" THEN 0
                                         ELSE bodyLen - (idx + 1)]
    /\ execDone' = TRUE
    /\ testSuites' = FindTests(testSuites, heap[lua].registry,
                               testSuites[cur.suite][cur.test].file,
                               testSuites[cur.suite][cur.test].filePath)
    /\ workingDirectory' =
          SetWorkingDirectory(workingDirectory, originalWorkingDirectory)
    /\ originalWorkingDirectory' = NoDirectory
    /\ UNCHANGED <<cmp, cfg, cli, probe, session, lastReg>>

\* lua_pcall of the test function has returned: the rest of the function
\* RunTest hands to WithScript, the rest of WithScript and of WithLua, and
\* the return of RunTest.
Leave(failed, msgs, exit, by, r) ==
    /\ errorMessageDelegate' = "empty"
    /\ currentTestFailed' = failed
    /\ sink' = sink \o msgs
    /\ heap' = lua_close(heap, lua)
    /\ lua' = 0
    /\ luaRegistryIndex' = 0
    /\ pc' = "idle"
    /\ cur' = NoTest
    /\ idx' = 0
    /\ bodyLen' = 0
    /\ run' = NoRun
    /\ last' = [NoResult EXCEPT !.op = "RunTest", !.found = TRUE,
                                !.failedBefore = cur.failedBefore,
                                !.passed = RunTestReturn(failed),
                                !.reload = "ok", !.bodyExit = exit,
                                !.abortBy = by,
                                !.expectUnmet = r.expectUnmet,
                                !.assertUnmet = r.assertUnmet,
                                !.left = IF exit = "normal" THEN 0
                                         ELSE bodyLen - (idx + 1)]
    /\ execDone' = TRUE
    /\ workingDirectory' =
          SetWorkingDirectory(workingDirectory, originalWorkingDirectory)
    /\ originalWorkingDirectory' = NoDirectory
    /\ UNCHANGED <<cmp, cfg, cli, probe, testSuites, session, lastReg>>

\* lua_pcall of the test function answers an error: the error is reported
\* unless its value is nil, and currentTestFailed is set.
Abort(msgs, value, by, r) ==
    Leave(TRUE,
          msgs \o (IF value = "nil" THEN <<>> ELSE <<"ERROR: lua error">>),
          "abnormal", by, r)

\* The body goes on with its next statement.
Continue(failed, msgs, r) ==
    /\ idx' = idx + 1
    /\ currentTestFailed' = failed
    /\ sink' = sink \o msgs
    /\ run' = r
    /\ UNCHANGED <<cmp, cfg, workingDirectory, originalWorkingDirectory, cli,
                   probe, lua, luaRegistryIndex, testSuites,
                   errorMessageDelegate, heap, session, pc, cur, bodyLen,
                   last, lastReg, execDone>>

\* A statement of the body that assigns a global variable.
BodyAssign ==
    /\ pc = "body"
    /\ idx < bodyLen
    /\ idx' = idx + 1
    /\ heap' = [heap EXCEPT ![lua].globals = @ \cup {session}]
    /\ UNCHANGED <<cmp, cfg, workingDirectory, originalWorkingDirectory, cli,
                   probe, lua, luaRegistryIndex, testSuites,
                   currentTestFailed, errorMessageDelegate, session, pc, cur,
                   bodyLen, run, sink, last, lastReg, execDone>>

\* A statement of the body that calls error(); value is "nil" for an error
\* without value.
BodyError(value) ==
    /\ pc = "body"
    /\ idx < bodyLen
    /\ Abort(<<>>, value, "error", run)

\* A statement of the body that calls moonunit:expect_<kind>(a, b), inside a
\* pcall of the script (protected) or not.
BodyExpect(kind, ab, protected) ==
    /\ pc = "body"
    /\ idx < bodyLen
    /\ errorMessageDelegate = "caller"
    /\ LET e == LuaExpect(kind, ab[1], ab[2])
           r == [run EXCEPT !.expectUnmet = @ \/ e.unmet]
       IN  IF e.raise /\ ~protected
           THEN Abort(e.msgs, "message",
                      IF e.unmet THEN "expect unmet" ELSE "expect error", r)
           ELSE Continue(currentTestFailed \/ e.flag, e.msgs, r)

\* A statement of the body that calls moonunit:assert_<kind>(a, b), inside a
\* pcall of the script (protected) or not.
BodyAssert(kind, ab, protected) ==
    /\ pc = "body"
    /\ idx < bodyLen
    /\ LET e == LuaAssert(kind, ab[1], ab[2])
           r == [run EXCEPT !.assertUnmet =
                    IF ~e.unmet THEN @
                    ELSE IF e.raise /\ protected THEN "caught"
                    ELSE "direct"]
       IN  IF e.raise /\ ~protected
           THEN Abort(e.msgs, "message",
                      IF e.unmet THEN "assert unmet" ELSE "assert error", r)
           ELSE Continue(currentTestFailed \/ e.flag, e.msgs, r)

\* The body returns.
BodyReturn ==
    /\ pc = "body"
    /\ idx = bodyLen
    /\ Leave(currentTestFailed, <<>>, "normal", "none", run)

\* GetReport.
Report ==
    /\ pc = "idle"
    /\ sink' = <<>>
    /\ last' = [NoResult EXCEPT !.op = "GetReport",
                                !.report = GetReport(testSuites)]
    /\ UNCHANGED <<cmp, cfg, workingDirectory, originalWorkingDirectory, cli,
                   probe, lua, luaRegistryIndex, testSuites,
                   currentTestFailed, errorMessageDelegate, heap, session, pc,
                   cur, idx, bodyLen, run, lastReg, execDone>>

Next ==
    \/ \E f \in Files, io \in {"ERROR: Unable to open Lua script file",
                               "ERROR: Unable to read Lua script file"} :
          LoadTestSuiteUnreadable(f, io)
    \/ \E f \in Files, load \in {"LUA_OK", "LUA_ERRSYNTAX", "LUA_ERRMEM",
                                 "LUA_ERRGCMM"}, top \in TopResults :
          LoadTestSuiteFails(f, load, top)
    \/ \E f \in Files : LoadTestSuiteLoads(f)
    \/ \E f \in Files, kind \in Kinds, ab \in OperandPairs,
          out \in ThrowOutcomes : LoadTestSuiteThrows(f, kind, ab, out)
    \/ \E suite \in SuiteNames, test \in TestNames :
          RunTestNotFound(suite, test)
    \/ \E suite \in SuiteNames, test \in TestNames,
          load \in {"LUA_OK", "LUA_ERRMEM", "LUA_ERRGCMM"},
          top \in TopResults : RunTestReloadFails(suite, test, load, top)
    \/ \E suite \in SuiteNames, test \in TestNames, kind \in Kinds,
          ab \in OperandPairs, out \in ThrowOutcomes :
          RunTestReloadThrows(suite, test, kind, ab, out)
    \/ \E suite \in SuiteNames, test \in TestNames, len \in 0..MaxBodyLen :
          RunTestInvoke(suite, test, len)
    \/ BodyAssign
    \/ \E value \in {"message", "nil"} : BodyError(value)
    \/ \E kind \in Kinds, ab \in OperandPairs, protected \in BOOLEAN :
          BodyExpect(kind, ab, protected)
    \/ \E kind \in Kinds, ab \in OperandPairs, protected \in BOOLEAN :
          BodyAssert(kind, ab, protected)
    \/ BodyReturn
    \/ Report

Spec == Init /\ [][Next]_vars

\* ------------------------------------------------- calls on their own

\* The values a script hands to CompareLuaTables and to the assert_ and
\* expect_ functions.  The key 17 is a key that (int) cuts down to 1, as
\* 2^32 + 1 is for an int of 32 bits.
Leaves == {LInt(1), LInt(2)}

Keys == {LInt(1), LInt(17), LStr("a")}

TabNaN == LTab([k \in {LInt(1)} |-> LNaN])

FlatTables == {LTab(f) : f \in UNION {[D -> Leaves] : D \in SUBSET Keys}}

NestedTables ==
    {LTab([k \in {LStr("a")} |-> inner]) :
        inner \in {LTab(EmptyMap), TabA, TabB,
                   LTab([k \in {LInt(17)} |-> LInt(1)]),
                   LTab([k \in {LInt(1), LInt(17)} |-> LInt(1)]),
                   TabNaN, TabF}}

Tables == FlatTables \cup NestedTables \cup {TabNaN, TabF}

Scalars ==
    {LNil, LBool(TRUE), LBool(FALSE), LInt(1), LInt(2), LStr("a"), LStr("b"),
     LNaN, LFun}

Values == Scalars \cup Tables

\* The runner is idle and a script has put two operands on the stack.
InitCalls ==
    /\ lua = 0
    /\ luaRegistryIndex = 0
    /\ testSuites = EmptyMap
    /\ currentTestFailed = FALSE
    /\ errorMessageDelegate = "caller"
    /\ heap = <<>>
    /\ session = 0
    /\ pc = "idle"
    /\ cur = NoTest
    /\ idx = 0
    /\ bodyLen = 0
    /\ run = NoRun
    /\ sink = <<>>
    /\ last = NoResult
    /\ lastReg = EmptyMap
    /\ execDone = FALSE
    /\ cli = NoCli
    /\ workingDirectory = ProjectDirectory
    /\ originalWorkingDirectory = NoDirectory
    /\ cmp = NoCmp
    /\ cfg = NoCfg
    /\ probe \in {[NoProbe EXCEPT !.called = "operands", !.lhs = a, !.rhs = b] :
                     a \in Values, b \in Values}

\* CompareLuaTables(lhs, rhs) on two tables.
CallCompareLuaTables ==
    /\ probe.called = "operands"
    /\ lua_istable(probe.lhs) /\ lua_istable(probe.rhs)
    /\ probe' = [probe EXCEPT
                    !.called = "CompareLuaTables",
                    !.result = CompareLuaTables(probe.lhs, probe.rhs, <<>>)]
    /\ UNCHANGED <<cmp, cfg, workingDirectory, originalWorkingDirectory, cli,
                   lua, luaRegistryIndex, testSuites, currentTestFailed,
                   errorMessageDelegate, heap, session, pc, cur, idx, bodyLen,
                   run, sink, last, lastReg, execDone>>

\* moonunit:assert_<kind>(lhs, rhs).
CallAssert(kind) ==
    /\ probe.called = "operands"
    /\ probe' = [probe EXCEPT
                    !.called = "assert", !.kind = kind,
                    !.result = LuaAssert(kind, probe.lhs, probe.rhs)]
    /\ UNCHANGED <<cmp, cfg, workingDirectory, originalWorkingDirectory, cli,
                   lua, luaRegistryIndex, testSuites, currentTestFailed,
                   errorMessageDelegate, heap, session, pc, cur, idx, bodyLen,
                   run, sink, last, lastReg, execDone>>

\* moonunit:expect_<kind>(lhs, rhs), with the delegate of a caller set: what
\* it hands to the delegate and whether it sets currentTestFailed.
CallExpect(kind) ==
    /\ probe.called = "operands"
    /\ LET e == LuaExpect(kind, probe.lhs, probe.rhs)
       IN  /\ probe' = [probe EXCEPT !.called = "expect", !.kind = kind,
                                     !.result = e]
           /\ sink' = e.msgs
           /\ currentTestFailed' = e.flag
    /\ UNCHANGED <<cmp, cfg, workingDirectory, originalWorkingDirectory, cli,
                   lua, luaRegistryIndex, testSuites, errorMessageDelegate,
                   heap, session, pc, cur, idx, bodyLen, run, last, lastReg,
                   execDone>>

NextCalls ==
    \/ CallCompareLuaTables
    \/ \E kind \in Kinds : CallAssert(kind)
    \/ \E kind \in Kinds : CallExpect(kind)

CallSpec == InitCalls /\ [][NextCalls]_vars

\* ------------------------------------------------------------------ main

\* The number of names in the filter of the command line.
MaxFilterNames == 2

\* A string is the sequence of its pieces; the name of a suite or of a test
\* is one piece.  The names a filter is made of: four tests by their full
\* name, S2.T2 being a test no script registers, and a name without '.'.
FilterNames ==
    { <<"S1", ".", "T1">>, <<"S1", ".", "T2">>, <<"S2", ".", "T1">>,
      <<"S2", ".", "T2">>, <<"S1">> }

RECURSIVE JoinNames(_)
\* The names of a filter, separated by colons.
JoinNames(names) ==
    IF names = <<>> THEN <<>>
    ELSE IF Len(names) = 1 THEN names[1]
    ELSE names[1] \o <<":">> \o JoinNames(Tail(names))

\* The values of --gtest_filter=FILTER; the empty string when there is none.
FilterStrings ==
    {JoinNames(names) :
        names \in UNION {[1..n -> FilterNames] : n \in 0..MaxFilterNames}}

\* std::string::find: the first index of the piece, 0 for npos.
Find(str, piece) ==
    IF \E i \in 1..Len(str) : str[i] = piece
    THEN CHOOSE i \in 1..Len(str) :
            /\ str[i] = piece
            /\ \A j \in 1..(i - 1) : str[j] # piece
    ELSE 0

RECURSIVE Split(_, _)
\* SystemAbstractions::Split: the parts of the string between the delimiters.
Split(str, d) ==
    IF Find(str, d) = 0 THEN <<str>>
    ELSE <<SubSeq(str, 1, Find(str, d) - 1)>>
         \o Split(SubSeq(str, Find(str, d) + 1, Len(str)), d)

RECURSIVE SelectTests(_, _)
\* The loop of main over the parts of the filter: a part with a '.' selects
\* the test named after the '.' in the suite named before it; a part
\* without '.' selects nothing.
SelectTests(selectedTests, filters) ==
    IF filters = <<>> THEN selectedTests
    ELSE LET filter == Head(filters)
             delimiterIndex == Find(filter, ".")
             testSuiteName == SubSeq(filter, 1, delimiterIndex - 1)
             testName == SubSeq(filter, delimiterIndex + 1, Len(filter))
         IN  IF delimiterIndex # 0
             THEN SelectTests(
                      MapPut(selectedTests, testSuiteName,
                             (IF testSuiteName \in DOMAIN selectedTests
                              THEN selectedTests[testSuiteName] ELSE {})
                             \cup {testName}),
                      Tail(filters))
             ELSE SelectTests(selectedTests, Tail(filters))

\* The loops of main over the suites and the tests of the runner: the tests
\* it hands to RunTest.
TestsRun(ts, selectedTests, listTests) ==
    { st \in UNION {{<<suite, test>> : test \in GetTestNames(ts, suite)} :
                        suite \in GetTestSuiteNames(ts)} :
        /\ ~(selectedTests # EmptyMap /\ <<st[1]>> \notin DOMAIN selectedTests)
        /\ (<<st[1]>> \in DOMAIN selectedTests =>
                <<st[2]>> \in selectedTests[<<st[1]>>])
        /\ ~listTests }

\* testSuites after Configure has loaded the given files in order.
RECURSIVE Configure(_, _)
Configure(ts, files) ==
    IF files = <<>> THEN ts
    ELSE Configure(FindTests(ts, RunRegs(EmptyMap, RegsOf(Head(files).text)),
                             Head(files).text, Head(files).path),
                   Tail(files))

\* The files of which LoadTestSuite reports to the delegate of main, which
\* writes to stderr, that they cannot be loaded.
LoadErrors(files) ==
    {files[i].path : i \in {j \in 1..Len(files) :
                              "LUA_OK" \notin LoadResults(files[j].text)}}

\* The script files Configure finds, in the order it loads them.
ConfiguredFiles ==
    { <<[path |-> "tests/a.lua", text |-> "t1"]>>,
      <<[path |-> "b.lua", text |-> "t2"]>>,
      <<[path |-> "b.lua", text |-> "t2"],
        [path |-> "tests/a.lua", text |-> "t1"]>>,
      <<[path |-> "c.lua", text |-> "t3"],
        [path |-> "tests/a.lua", text |-> "t1"]>> }

\* main has read its command line and Configure has loaded script files.
InitMain ==
    /\ lua = 0
    /\ luaRegistryIndex = 0
    /\ \E files \in ConfiguredFiles :
          /\ testSuites = Configure(EmptyMap, files)
          /\ \E filter \in FilterStrings, listTests \in BOOLEAN :
                cli = [NoCli EXCEPT !.phase = "configured",
                                    !.loadErrors = LoadErrors(files),
                                    !.filter = filter,
                                    !.listTests = listTests]
    /\ currentTestFailed = FALSE
    /\ errorMessageDelegate = "empty"
    /\ heap = <<>>
    /\ session = 0
    /\ pc = "idle"
    /\ cur = NoTest
    /\ idx = 0
    /\ bodyLen = 0
    /\ run = NoRun
    /\ sink = <<>>
    /\ last = NoResult
    /\ lastReg = EmptyMap
    /\ execDone = FALSE
    /\ probe = NoProbe
    /\ workingDirectory = ProjectDirectory
    /\ originalWorkingDirectory = NoDirectory
    /\ cmp = NoCmp
    /\ cfg = NoCfg

\* main: the tests the filter selects.
MainSelectTests ==
    /\ cli.phase = "configured"
    /\ cli' = [cli EXCEPT
                  !.phase = "selected",
                  !.selectedTests =
                      IF cli.filter = <<>> THEN EmptyMap
                      ELSE SelectTests(EmptyMap, Split(cli.filter, ":"))]
    /\ UNCHANGED <<cmp, cfg, workingDirectory, originalWorkingDirectory, lua,
                   luaRegistryIndex, testSuites, currentTestFailed,
                   errorMessageDelegate, heap, session, pc, cur, idx, bodyLen,
                   run, sink, last, lastReg, execDone, probe>>

\* main: the loop that lists the tests or hands them to RunTest, and the
\* exit code; failed are the tests for which RunTest returns false, and
\* success is cleared for each of them.
MainRunTests(failed) ==
    /\ cli.phase = "selected"
    /\ failed \subseteq TestsRun(testSuites, cli.selectedTests, cli.listTests)
    /\ cli' = [cli EXCEPT
                  !.phase = "done",
                  !.ran = TestsRun(testSuites, cli.selectedTests,
                                   cli.listTests),
                  !.failed = failed,
                  !.success = (failed = {})]
    /\ UNCHANGED <<cmp, cfg, workingDirectory, originalWorkingDirectory, lua,
                   luaRegistryIndex, testSuites, currentTestFailed,
                   errorMessageDelegate, heap, session, pc, cur, idx, bodyLen,
                   run, sink, last, lastReg, execDone, probe>>

NextMain ==
    \/ MainSelectTests
    \/ \E failed \in SUBSET (SuiteNames \X TestNames) : MainRunTests(failed)

MainSpec == InitMain /\ [][NextMain]_vars

\* ------------------------------------------- tables that refer to tables

\* The number of frames of CompareLuaTables the stack of the process has
\* room for.  It is more than the pairs of tables there are, so that only a
\* recursion that never ends reaches it.
MaxDepth == 5

\* A table is an object, and the value of a field that holds a table is a
\* reference to the object: Ref(id) is the table that is object id.
TableIds == {1, 2}

Ref(id) == [t |-> "table", v |-> id]

\* The objects: object id -> key -> value.  A key is a number, a string or a
\* function; a value is a number or a table, which may be the table itself.
RefKeys == {LInt(1), LStr("a"), LFun}

RefValues == {LInt(1)} \cup {Ref(id) : id \in TableIds}

ObjectGraphs ==
    [TableIds -> UNION {[D -> RefValues] : D \in SUBSET RefKeys}]

\* The frame of a call of CompareLuaTables: the two tables, and the keys of
\* lhs not visited yet and the keys of rhs not erased yet.
Frame(objects, lhs, rhs) ==
    [lhs |-> lhs, rhs |-> rhs,
     lhsKeys |-> EnumerateKeys(LTab(objects[lhs])),
     rhsKeys |-> EnumerateKeys(LTab(objects[rhs]))]

\* EnumerateKeys of one of the two tables raises.
FrameRaises(objects, lhs, rhs) ==
    \/ EnumerateKeysRaises(LTab(objects[lhs]))
    \/ EnumerateKeysRaises(LTab(objects[rhs]))

\* The frame on top of the stack, the key its loop is at, and the values of
\* the two tables under the key.
TopFrame == cmp.stack[Len(cmp.stack)]

TopKey == FirstKey(TopFrame.lhsKeys)

TopLhsValue ==
    lua_gettable(LTab(cmp.objects[TopFrame.lhs]), LuaValueFromJsonValue(TopKey))

TopRhsValue ==
    lua_gettable(LTab(cmp.objects[TopFrame.rhs]), LuaValueFromJsonValue(TopKey))

\* The stack after the loop of the top frame has erased its key from rhsKeys
\* and gone on to its next key.
KeyDone(stack) ==
    [stack EXCEPT ![Len(stack)] =
        [@ EXCEPT !.lhsKeys = @ \ {FirstKey(stack[Len(stack)].lhsKeys)},
                  !.rhsKeys = @ \ {FirstKey(stack[Len(stack)].lhsKeys)}]]

\* What becomes of the process when the recursion runs out of stack.
OverflowOutcomes == {"segmentation fault", "memory overwritten"}

\* Two tables are on the stack of the interpreter.
InitCompare ==
    /\ lua = 0
    /\ luaRegistryIndex = 0
    /\ testSuites = EmptyMap
    /\ currentTestFailed = FALSE
    /\ errorMessageDelegate = "caller"
    /\ heap = <<>>
    /\ session = 0
    /\ pc = "idle"
    /\ cur = NoTest
    /\ idx = 0
    /\ bodyLen = 0
    /\ run = NoRun
    /\ sink = <<>>
    /\ last = NoResult
    /\ lastReg = EmptyMap
    /\ execDone = FALSE
    /\ probe = NoProbe
    /\ cli = NoCli
    /\ workingDirectory = ProjectDirectory
    /\ originalWorkingDirectory = NoDirectory
    /\ cfg = NoCfg
    /\ \E objects \in ObjectGraphs, lhs \in TableIds, rhs \in TableIds :
          cmp = [state |-> "operands", objects |-> objects,
                 stack |-> <<[lhs |-> lhs, rhs |-> rhs,
                              lhsKeys |-> {}, rhsKeys |-> {}]>>,
                 status |-> ""]

\* What every step of a comparison leaves alone.
CompareFrame ==
    UNCHANGED <<lua, luaRegistryIndex, testSuites, currentTestFailed,
                errorMessageDelegate, heap, session, pc, cur, idx, bodyLen,
                run, sink, last, lastReg, execDone, probe, cli,
                workingDirectory, originalWorkingDirectory, cfg>>

\* An eq or ne function calls CompareLuaTables on its two tables: the keys
\* of both are enumerated, which raises for a key that has no JSON value.
CompareEnter ==
    /\ cmp.state = "operands"
    /\ LET lhs == cmp.stack[1].lhs
           rhs == cmp.stack[1].rhs
       IN  cmp' = IF FrameRaises(cmp.objects, lhs, rhs)
                  THEN [cmp EXCEPT !.state = "raised", !.stack = <<>>]
                  ELSE [cmp EXCEPT !.state = "running",
                                   !.stack = <<Frame(cmp.objects, lhs, rhs)>>]
    /\ CompareFrame

\* The loop of the top frame visits a key under which the two tables do not
\* both hold a table: the key is missing in rhs, or the two values differ,
\* and CompareLuaTables and all its callers return the difference; or the
\* two values are equal and the loop goes on.
CompareKey ==
    /\ cmp.state = "running"
    /\ TopFrame.lhsKeys # {}
    /\ ~(TopKey \in TopFrame.rhsKeys
            /\ lua_istable(TopLhsValue) /\ lua_istable(TopRhsValue))
    /\ cmp' = IF TopKey \notin TopFrame.rhsKeys
              THEN [cmp EXCEPT !.state = "returned", !.stack = <<>>,
                               !.status = "missing"]
              ELSE IF ~lua_compare(TopRhsValue, TopLhsValue, "LUA_OPEQ")
              THEN [cmp EXCEPT !.state = "returned", !.stack = <<>>,
                               !.status = "mismatch"]
              ELSE [cmp EXCEPT !.stack = KeyDone(cmp.stack)]
    /\ CompareFrame

\* The loop of the top frame visits a key under which both tables hold a
\* table: CompareLuaTables calls itself on the two.
CompareDescend ==
    /\ cmp.state = "running"
    /\ TopFrame.lhsKeys # {}
    /\ TopKey \in TopFrame.rhsKeys
    /\ lua_istable(TopLhsValue) /\ lua_istable(TopRhsValue)
    /\ Len(cmp.stack) < MaxDepth
    /\ cmp' = IF FrameRaises(cmp.objects, TopLhsValue.v, TopRhsValue.v)
              THEN [cmp EXCEPT !.state = "raised", !.stack = <<>>]
              ELSE [cmp EXCEPT !.stack =
                        Append(@, Frame(cmp.objects, TopLhsValue.v,
                                        TopRhsValue.v))]
    /\ CompareFrame

\* CompareLuaTables calls itself and the stack has no room for the frame.
CompareOverflow(outcome) ==
    /\ cmp.state = "running"
    /\ TopFrame.lhsKeys # {}
    /\ TopKey \in TopFrame.rhsKeys
    /\ lua_istable(TopLhsValue) /\ lua_istable(TopRhsValue)
    /\ Len(cmp.stack) = MaxDepth
    /\ cmp' = [cmp EXCEPT !.state = outcome]
    /\ CompareFrame

\* The loop of the top frame is over: it returns the extra key of rhs to
\* all its callers, or it returns the empty string, with which the frame
\* below goes on to its next key and the first frame returns.
CompareReturn ==
    /\ cmp.state = "running"
    /\ TopFrame.lhsKeys = {}
    /\ cmp' = IF TopFrame.rhsKeys # {}
              THEN [cmp EXCEPT !.state = "returned", !.stack = <<>>,
                               !.status = "extra"]
              ELSE IF Len(cmp.stack) = 1
              THEN [cmp EXCEPT !.state = "returned", !.stack = <<>>,
                               !.status = "same"]
              ELSE [cmp EXCEPT !.stack =
                        KeyDone(SubSeq(cmp.stack, 1, Len(cmp.stack) - 1))]
    /\ CompareFrame

NextCompare ==
    \/ CompareEnter
    \/ CompareKey
    \/ CompareDescend
    \/ \E outcome \in OverflowOutcomes : CompareOverflow(outcome)
    \/ CompareReturn

\* The comparison is the only thread of the process: it takes its next step
\* as long as it has one.
CompareSpec == InitCompare /\ [][NextCompare]_vars /\ WF_vars(NextCompare)

\* ------------------------------------------------ configuration files

\* The number of lines of a configuration file.
MaxLines == 2

\* The number of frames of Runner::Configure the stack of the process has
\* room for.  It is more than the folders with a configuration file there
\* are, so that only a recursion that never ends reaches it.
MaxNesting == 3

\* The folders of the project: "sub" is a folder of "root", and "outside"
\* is the folder above "root", which has no configuration file and no
\* script.  Every folder of the project holds a script a.lua.
Folders == {"root", "sub"}

\* The lines of a configuration file, trimmed: this folder, as "." or as a
\* blank line, the folder above, the folder sub, and the script.
Lines == {".", "", "..", "sub", "a.lua"}

\* The configuration files: folder -> lines.  root has one, the one main
\* hands to Configure; sub has one or not.
Layouts ==
    LET files == UNION {[1..n -> Lines] : n \in 0..MaxLines}
    IN  {[folder \in {"root"} |-> f] : f \in files}
        \cup [Folders -> files]

\* What the search path of a line is, for a configuration file of the
\* folder: ParentFolderPath of the file, "/", and the line.
SearchPath(folder, line) ==
    CASE line \in {".", ""} -> [kind |-> "directory", path |-> folder]
      [] line = ".." ->
            [kind |-> "directory",
             path |-> IF folder = "sub" THEN "root" ELSE "outside"]
      [] line = "sub" ->
            IF folder = "root" THEN [kind |-> "directory", path |-> "sub"]
            ELSE [kind |-> "missing", path |-> ""]
      [] line = "a.lua" -> [kind |-> "file", path |-> folder]

\* The scripts ListDirectory finds in a folder.
ListDirectory(folder) == IF folder \in Folders THEN {folder} ELSE {}

\* main calls Configure with the configuration file of root.
InitConfigure ==
    /\ lua = 0
    /\ luaRegistryIndex = 0
    /\ testSuites = EmptyMap
    /\ currentTestFailed = FALSE
    /\ errorMessageDelegate = "empty"
    /\ heap = <<>>
    /\ session = 0
    /\ pc = "idle"
    /\ cur = NoTest
    /\ idx = 0
    /\ bodyLen = 0
    /\ run = NoRun
    /\ sink = <<>>
    /\ last = NoResult
    /\ lastReg = EmptyMap
    /\ execDone = FALSE
    /\ probe = NoProbe
    /\ cli = NoCli
    /\ workingDirectory = ProjectDirectory
    /\ originalWorkingDirectory = NoDirectory
    /\ cmp = NoCmp
    /\ \E layout \in Layouts :
          cfg = [state |-> "running", layout |-> layout,
                 stack |-> <<[folder |-> "root", lines |-> layout["root"]]>>,
                 loaded |-> {}]

\* What every step of Configure leaves alone; the scripts it loads are
\* recorded by their folder.
ConfigureFrame ==
    UNCHANGED <<lua, luaRegistryIndex, testSuites, currentTestFailed,
                errorMessageDelegate, heap, session, pc, cur, idx, bodyLen,
                run, sink, last, lastReg, execDone, probe, cli,
                workingDirectory, originalWorkingDirectory, cmp>>

\* The running call of Configure, the line its loop is at and the search
\* path of the line.
TopConfigure == cfg.stack[Len(cfg.stack)]

TopSearchPath == SearchPath(TopConfigure.folder, Head(TopConfigure.lines))

\* The stack after the loop of the running call has gone on to its next
\* line.
LineDone(stack) ==
    [stack EXCEPT ![Len(stack)] = [@ EXCEPT !.lines = Tail(@)]]

\* The loop visits a line that names nothing, a script, or a folder without
\* configuration file, whose scripts it loads.
ConfigureLine ==
    /\ cfg.state = "running"
    /\ TopConfigure.lines # <<>>
    /\ ~(TopSearchPath.kind = "directory"
            /\ TopSearchPath.path \in DOMAIN cfg.layout)
    /\ cfg' = [cfg EXCEPT
                  !.stack = LineDone(@),
                  !.loaded =
                      @ \cup CASE TopSearchPath.kind = "file" ->
                                    {TopSearchPath.path}
                               [] TopSearchPath.kind = "directory" ->
                                    ListDirectory(TopSearchPath.path)
                               [] OTHER -> {}]
    /\ ConfigureFrame

\* The loop visits a line that names a folder with a configuration file:
\* Configure calls itself with that file.
ConfigureNested ==
    /\ cfg.state = "running"
    /\ TopConfigure.lines # <<>>
    /\ TopSearchPath.kind = "directory"
    /\ TopSearchPath.path \in DOMAIN cfg.layout
    /\ Len(cfg.stack) < MaxNesting
    /\ cfg' = [cfg EXCEPT
                  !.stack = Append(@, [folder |-> TopSearchPath.path,
                                       lines |-> cfg.layout[TopSearchPath.path]])]
    /\ ConfigureFrame

\* Configure calls itself and the stack has no room for the frame.
ConfigureOverflow(outcome) ==
    /\ cfg.state = "running"
    /\ TopConfigure.lines # <<>>
    /\ TopSearchPath.kind = "directory"
    /\ TopSearchPath.path \in DOMAIN cfg.layout
    /\ Len(cfg.stack) = MaxNesting
    /\ cfg' = [cfg EXCEPT !.state = outcome]
    /\ ConfigureFrame

\* The loop of the running call is over: Configure returns, and the call
\* below goes on to its next line.
ConfigureReturn ==
    /\ cfg.state = "running"
    /\ TopConfigure.lines = <<>>
    /\ cfg' = IF Len(cfg.stack) = 1
              THEN [cfg EXCEPT !.state = "returned", !.stack = <<>>]
              ELSE [cfg EXCEPT !.stack =
                        LineDone(SubSeq(cfg.stack, 1, Len(cfg.stack) - 1))]
    /\ ConfigureFrame

NextConfigure ==
    \/ ConfigureLine
    \/ ConfigureNested
    \/ \E outcome \in OverflowOutcomes : ConfigureOverflow(outcome)
    \/ ConfigureReturn

\* Configure is the only thread of the process: it takes its next step as
\* long as it has one.
ConfigureSpec ==
    InitConfigure /\ [][NextConfigure]_vars /\ WF_vars(NextConfigure)

\* ---------------------------------------------------------------- claims

RunTestEnded == last.op = "RunTest" /\ last.found /\ last.ret = "normal"

\* C1: RunTest of a test of testSuites returns true if and only if the
\* script loaded again without error, the body returned normally and no
\* expect_ call of the body found its expectation not met.
C1_PassedIffClean ==
    RunTestEnded =>
        (last.passed <=> (/\ last.reload = "ok"
                          /\ last.bodyExit = "normal"
                          /\ ~last.expectUnmet))

\* C2, as it is stated: no expect_ call, of any kind and with any operands,
\* ends the body, and a test with a failing expect_ call is reported failed.
C2_ExpectNeverEndsBody ==
    RunTestEnded =>
        /\ last.abortBy \notin {"expect unmet", "expect error"}
        /\ (last.expectUnmet => ~last.passed)

\* C2, amended: an expect_ call whose comparison raises no error and whose
\* expectation is not met never ends the body (the body goes on with the
\* statement after the call), it sets currentTestFailed, and the test is
\* reported failed.
C2_UnmetExpectContinues ==
    /\ (pc = "body" /\ run.expectUnmet => currentTestFailed)
    /\ (RunTestEnded =>
            /\ last.abortBy # "expect unmet"
            /\ (last.expectUnmet => ~last.passed))

\* C2, witness: a body returned after more than one of its expect_ calls
\* had failed, and the test is reported failed.
C2_Witness ==
    /\ RunTestEnded
    /\ last.bodyExit = "normal"
    /\ last.expectUnmet
    /\ Len(sink) >= 3
    /\ ~last.passed

\* C3, as it is stated: the body never goes on after one of its assert_
\* calls has found its expectation not met.
C3_AssertEndsBody == pc = "body" => run.assertUnmet = "none"

\* C3, amended: the body never goes on after an assert_ call that is not
\* inside a protected call of the script has found its expectation not met;
\* such a call ends the body and the test is reported failed.
C3_DirectAssertEndsBody ==
    /\ (pc = "body" => run.assertUnmet # "direct")
    /\ (RunTestEnded /\ last.assertUnmet = "direct" =>
            /\ last.abortBy = "assert unmet"
            /\ last.bodyExit = "abnormal"
            /\ ~last.passed)

\* C3, witness: a failing assert_ call ended a body that had statements
\* left.
C3_Witness ==
    /\ RunTestEnded
    /\ last.abortBy = "assert unmet"
    /\ last.left > 0

\* C4: every assert_ or expect_ call of the body that finds its expectation
\* not met sets currentTestFailed, and RunTest returns false whenever there
\* was such a call, also when the script caught the error of the assert_.
C4_FailedCallFailsTest ==
    /\ (pc = "body" /\ (run.expectUnmet \/ run.assertUnmet # "none") =>
            currentTestFailed)
    /\ (RunTestEnded /\ (last.expectUnmet \/ last.assertUnmet # "none") =>
            ~last.passed)

\* C5: RunTest of a suite or a test that testSuites does not hold returns
\* false, hands exactly one "not found" message to the delegate of the
\* caller, makes no interpreter and throws nothing.
C5_NotFound ==
    [][(pc = "idle" /\ last'.op = "RunTest" /\ ~last'.found) =>
          /\ ~last'.passed
          /\ last'.ret = "normal"
          /\ pc' = "idle"
          /\ Len(sink') = 1
          /\ sink'[1] \in {"ERROR: No test suite found",
                           "ERROR: No test found in test suite"}
          /\ session' = session
          /\ heap' = heap
          /\ lua' = lua]_vars

\* C5, witness: RunTest did not find a test in a suite that exists.
C5_Witness ==
    /\ last.op = "RunTest"
    /\ ~last.found
    /\ testSuites # EmptyMap
    /\ sink = <<"ERROR: No test found in test suite">>

\* C6: no interpreter serves two sessions, and the interpreter a body runs
\* in holds no global variable that another session assigned.
C6_Isolation ==
    /\ \A i \in 1..Len(heap) : Cardinality(heap[i].sessions) <= 1
    /\ (pc = "body" =>
            /\ heap[lua].sessions = {session}
            /\ heap[lua].globals \subseteq {session})

\* C6, witness: a body runs after an earlier RunTest ran its script and its
\* body, each of which assigned a global variable.
C6_Witness == pc = "body" /\ execDone /\ idx > 0

\* C7: whenever control is outside WithLua the interpreter is closed, the
\* reference into the registry released, and Impl holds no interpreter.
C7_TornDown ==
    pc \in {"idle", "terminated"} =>
        /\ lua = 0
        /\ luaRegistryIndex = 0
        /\ \A i \in 1..Len(heap) : ~heap[i].open

\* C8: LoadTestSuite and RunTest return normally to their caller for every
\* script and every body: no exception leaves them.
C8_NoExceptionEscapes == pc # "terminated" /\ last.ret = "normal"

\* C9: testSuites holds exactly one entry for each pair registered by a
\* loaded script, and the entry is the path, text and line of the call of
\* moonunit:test made last for the pair.
C9_LastRegistrationWins ==
    /\ \A p \in DOMAIN lastReg :
          /\ Found(testSuites, p[1], p[2])
          /\ testSuites[p[1]][p[2]] = lastReg[p]
          /\ Cardinality({c \in GetReport(testSuites).testsuites[p[1]].testcases :
                             c.name = p[2]}) = 1
    /\ \A suite \in DOMAIN testSuites : \A test \in DOMAIN testSuites[suite] :
          <<suite, test>> \in DOMAIN lastReg

\* C9, witness: S1.T1 was registered by b.lua and after that twice by
\* tests/a.lua, and carries the line of the second call of tests/a.lua.
C9_Witness ==
    /\ Found(testSuites, "S1", "T1")
    /\ Found(testSuites, "S1", "T2")
    /\ testSuites["S1"]["T1"].filePath = "tests/a.lua"
    /\ testSuites["S1"]["T1"].lineNumber = 5

RECURSIVE SumCounts(_, _)
\* The sum of the counts of tests the suites of a report state.
SumCounts(testsuites, suites) ==
    IF suites = {} THEN 0
    ELSE LET suite == CHOOSE x \in suites : TRUE
         IN  testsuites[suite].tests + SumCounts(testsuites, suites \ {suite})

\* C10: in every report the count of tests of each suite is the number of
\* tests listed below it, and the count of the root is the sum of the counts
\* of the suites.
C10_ReportCounts ==
    last.op = "GetReport" =>
        /\ \A suite \in DOMAIN last.report.testsuites :
              last.report.testsuites[suite].tests =
                  Cardinality(last.report.testsuites[suite].testcases)
        /\ last.report.tests =
              SumCounts(last.report.testsuites, DOMAIN last.report.testsuites)

\* C10, witness: a report of two suites of two tests and one test, made
\* after tests were discovered and a test was run.
C10_Witness ==
    /\ last.op = "GetReport"
    /\ execDone
    /\ last.report.tests = 3
    /\ Cardinality(DOMAIN last.report.testsuites) = 2

\* A step of RunTest: its return, its entry into the body, or a statement
\* of the body.
RunTestStep == last'.op = "RunTest" \/ pc = "body" \/ pc' = "body"

\* C11: no step of RunTest, whether the test is found or not and whether it
\* passes or fails, changes what GetReport, GetTestSuiteNames and
\* GetTestNames answer, and after it the report lists every test a loaded
\* script registered, run or not.
C11_RunTestKeepsCatalog ==
    [][RunTestStep =>
          /\ GetReport(testSuites') = GetReport(testSuites)
          /\ GetTestSuiteNames(testSuites') = GetTestSuiteNames(testSuites)
          /\ \A suite \in SuiteNames \cup {"S3"} :
                GetTestNames(testSuites', suite) = GetTestNames(testSuites, suite)
          /\ \A p \in DOMAIN lastReg' :
                \E c \in GetReport(testSuites').testsuites[p[1]].testcases :
                    c.name = p[2]]_vars

\* C11, witness: a RunTest that found its test and ran its body has failed,
\* and testSuites holds three tests of two suites, more than were run.
C11_Witness ==
    /\ RunTestEnded
    /\ last.reload = "ok"
    /\ ~last.passed
    /\ GetReport(testSuites).tests = 3
    /\ GetTestSuiteNames(testSuites) = {"S1", "S2"}

\* C12: a LoadTestSuite whose script does not compile, or whose top-level
\* code raises an error, hands the error to the delegate of the caller,
\* leaves testSuites as it was, and returns normally, so that the files after
\* it are loaded.
C12_LoadErrorReported ==
    [][(pc = "idle" /\ last'.op = "LoadTestSuite" /\ last'.reload = "error") =>
          /\ sink' = <<"ERROR: Unable to load Lua script file">>
          /\ testSuites' = testSuites
          /\ last'.ret = "normal"
          /\ pc' = "idle"]_vars

RECURSIVE PlainTable(_)
\* A table whose keys, at every depth, are numbers, booleans or strings and
\* that holds the float 0/0 nowhere.
PlainTable(tab) ==
    \A k \in DOMAIN tab.v :
        /\ ~JsonRaises(k)
        /\ IF lua_istable(tab.v[k]) THEN PlainTable(tab.v[k])
           ELSE tab.v[k] # LNaN

C14_Symmetric ==
    (probe.called = "CompareLuaTables" /\ probe.result.status = "same") =>
        CompareLuaTables(probe.rhs, probe.lhs, <<>>).status = "same"

\* C14, witness: two tables that are not one and the same, one of them with
\* a table as a value, were compared and no difference was found.
C14_Witness ==
    /\ probe.called = "CompareLuaTables"
    /\ probe.lhs # probe.rhs
    /\ \E k \in DOMAIN probe.lhs.v : lua_istable(probe.lhs.v[k])
    /\ probe.result.status = "same"

RECURSIVE DeepEqual(_, _)
\* Two values are deeply equal: two tables with the same keys and, under
\* each key, deeply equal values; two other values that are equal.
DeepEqual(a, b) ==
    IF lua_istable(a) /\ lua_istable(b)
    THEN /\ DOMAIN a.v = DOMAIN b.v
         /\ \A k \in DOMAIN a.v : DeepEqual(a.v[k], b.v[k])
    ELSE lua_compare(a, b, "LUA_OPEQ")

\* C15: for two tables whose comparison raises no error, assert_eq and
\* expect_eq find their expectation met if and only if the tables are deeply
\* equal, and assert_ne and expect_ne if and only if they are not.
C15_EqIffDeepEqual ==
    (/\ probe.called \in {"assert", "expect"}
     /\ probe.kind \in {"eq", "ne"}
     /\ lua_istable(probe.lhs) /\ lua_istable(probe.rhs)
     /\ ~probe.result.raise) =>
        IF probe.kind = "eq"
        THEN ~probe.result.unmet <=> DeepEqual(probe.lhs, probe.rhs)
        ELSE ~probe.result.unmet <=> ~DeepEqual(probe.lhs, probe.rhs)

\* The order relations of Lua: a > b is b < a, and a >= b is b <= a.
LuaOrder(kind, a, b) ==
    CASE kind = "lt" -> lua_compare(a, b, "LUA_OPLT")
      [] kind = "le" -> lua_compare(a, b, "LUA_OPLE")
      [] kind = "gt" -> lua_compare(b, a, "LUA_OPLT")
      [] kind = "ge" -> lua_compare(b, a, "LUA_OPLE")

\* C16: for two numbers or two strings, assert_ and expect_ of the kinds lt,
\* le, gt and ge find their expectation met if and only if a < b, a <= b,
\* a > b and a >= b, and the assert_ and the expect_ function of a kind agree.
C16_OrderKinds ==
    (/\ probe.called \in {"assert", "expect"}
     /\ probe.kind \in {"lt", "le", "gt", "ge"}
     /\ \/ lua_isnumber(probe.lhs) /\ lua_isnumber(probe.rhs)
        \/ probe.lhs.t = "string" /\ probe.rhs.t = "string") =>
        /\ ~probe.result.raise \/ probe.called = "assert"
        /\ ~probe.result.unmet <=> LuaOrder(probe.kind, probe.lhs, probe.rhs)
        /\ LuaAssert(probe.kind, probe.lhs, probe.rhs).unmet
              = LuaExpect(probe.kind, probe.lhs, probe.rhs).unmet

\* A test is named in the filter: one of the parts of the filter between
\* the colons is the name of its suite, a '.', and its name.
NamedInFilter(filter, suite, test) ==
    \E i \in 1..Len(Split(filter, ":")) :
        Split(filter, ":")[i] = <<suite, ".", test>>

\* C17: when main is given a filter that is not empty and runs tests, the
\* tests it hands to RunTest are exactly the tests of testSuites that the
\* filter names.
C17_FilterSelectsNamedTests ==
    (cli.phase = "done" /\ cli.filter # <<>> /\ ~cli.listTests) =>
        cli.ran = { st \in UNION {{<<suite, test>> :
                                     test \in GetTestNames(testSuites, suite)} :
                                  suite \in GetTestSuiteNames(testSuites)} :
                      NamedInFilter(cli.filter, st[1], st[2]) }

\* C18: every expect_ function that finds its expectation not met, of each
\* of the eight kinds and for scalars as for tables, hands the sink its
\* failure message and then a traceback, these two and in this order, and
\* sets currentTestFailed.
C18_FailingExpectDeliversTwo ==
    (probe.called = "expect" /\ probe.result.unmet) =>
        /\ sink = <<"failure", "traceback">>
        /\ currentTestFailed

\* C19: an assert_ call of a body that finds its expectation not met hands
\* nothing to the sink when it is called; when its error reaches lua_pcall
\* of the test function, the sink receives exactly one message, RunTest
\* sets the test failed and returns to its caller: nothing is thrown and the
\* runner is idle again.
C19_AssertIsOneDiagnostic ==
    [][pc = "body" =>
        /\ (pc' = "body" /\ run'.assertUnmet # run.assertUnmet =>
                sink' = sink)
        /\ (last'.abortBy = "assert unmet" =>
                /\ sink' = sink \o <<"ERROR: lua error">>
                /\ pc' = "idle"
                /\ last'.op = "RunTest"
                /\ last'.ret = "normal"
                /\ ~last'.passed
                /\ errorMessageDelegate' = "empty")]_vars

\* C19, witness: a RunTest is over whose body was ended by a failing assert_
\* call, and the one message of that failure is all its sink received.
C19_Witness ==
    /\ RunTestEnded
    /\ last.abortBy = "assert unmet"
    /\ last.ret = "normal"
    /\ sink = <<"ERROR: lua error">>

\* C20: a RunTest whose body ended in an error, raised by an assert_ call or
\* by anything else and whatever the value of the error, returns false and
\* its sink has received the error; a RunTest of a test of testSuites that
\* returns false has handed at least one message to its sink.
C20_AbnormalExitIsReported ==
    /\ (RunTestEnded /\ last.found /\ last.bodyExit = "abnormal" =>
            /\ ~last.passed
            /\ sink # <<>>
            /\ sink[Len(sink)] = "ERROR: lua error")
    /\ (RunTestEnded /\ last.found /\ last.ret = "normal" /\ ~last.passed =>
            sink # <<>>)

\* C21: every call of WithScript leaves the working directory of the process
\* as it found it, whether the script ran, did not compile, raised an error
\* in its top-level code or could not be loaded: after LoadTestSuite and
\* after RunTest of a test of testSuites the working directory is the one
\* before the call.
C21_WorkingDirectoryRestored ==
    [][/\ (pc = "idle" /\ pc' = "idle" /\ session' # session =>
                workingDirectory' = workingDirectory)
       /\ (pc = "body" /\ pc' = "idle" =>
                workingDirectory' = originalWorkingDirectory)]_vars

\* C22: when RunTest enters the function of a test, the interpreter is one
\* that did not exist before the call and serves the new session only, its
\* registry is the one the top-level code of the text kept in the Test of
\* testSuites has just filled, and the function entered is the one found in
\* it under the suite and the test; the registry of an interpreter that was
\* closed is gone, and testSuites is all that is left of a session.
C22_FreshCallable ==
    [][/\ (pc = "idle" /\ pc' = "body" =>
            /\ session' = session + 1
            /\ lua' \notin 1..Len(heap)
            /\ heap'[lua'].sessions = {session'}
            /\ heap'[lua'].registry =
                  RunRegs(EmptyMap,
                          RegsOf(testSuites[cur'.suite][cur'.test].file))
            /\ Found(heap'[lua'].registry, cur'.suite, cur'.test))
       /\ (\A i \in 1..Len(heap') :
                ~heap'[i].open => heap'[i].registry = EmptyMap)]_vars

\* C22, witness: a body runs in a new interpreter after an earlier RunTest
\* ran the script and a body and its interpreter was closed.
C22_Witness ==
    /\ pc = "body"
    /\ execDone
    /\ lua = Len(heap)
    /\ \E i \in 1..Len(heap) : i # lua /\ ~heap[i].open /\ heap[i].sessions # {}
    /\ Found(heap[lua].registry, cur.suite, cur.test)

\* C23: main ends with success if and only if RunTest returned true for
\* every test it ran and every script file Configure loaded did load.
C23_SuccessIsConjunction ==
    (cli.phase = "done" /\ ~cli.listTests) =>
        (cli.success <=> (cli.failed = {} /\ cli.loadErrors = {}))

\* The pairs of suite and test the script file of the given path registers.
RegisteredBy(path) ==
    LET f == CHOOSE g \in Files : g.path = path
    IN  {<<RegsOf(f.text)[i].suite, RegsOf(f.text)[i].test>> :
            i \in 1..Len(RegsOf(f.text))}

\* The pairs of suite and test of testSuites.
Cataloged(ts) ==
    UNION {{<<suite, test>> : test \in DOMAIN ts[suite]} : suite \in DOMAIN ts}

\* C24: LoadTestSuite of a script changes in testSuites only the tests the
\* script registers: every other test, of the same suite or not, stays as it
\* was, no suite and no test is removed, a test that is new is one the
\* script registers, and a script that loaded has each of its tests, and so
\* each of its suites, in testSuites.
C24_LoadTouchesOwnTests ==
    [][(pc = "idle" /\ last'.op = "LoadTestSuite") =>
          /\ DOMAIN testSuites \subseteq DOMAIN testSuites'
          /\ Cataloged(testSuites) \subseteq Cataloged(testSuites')
          /\ \A st \in Cataloged(testSuites) \ RegisteredBy(last'.path) :
                testSuites'[st[1]][st[2]] = testSuites[st[1]][st[2]]
          /\ Cataloged(testSuites') \ Cataloged(testSuites)
                \subseteq RegisteredBy(last'.path)
          /\ (last'.reload = "ok" =>
                /\ RegisteredBy(last'.path) \subseteq Cataloged(testSuites')
                /\ \A st \in RegisteredBy(last'.path) :
                      testSuites'[st[1]][st[2]].filePath = last'.path)]_vars

\* C24, witness: after a LoadTestSuite that loaded its script, suite S1 of
\* testSuites holds a test of that script and a test of the other script.
C24_Witness ==
    /\ last.op = "LoadTestSuite"
    /\ last.reload = "ok"
    /\ last.path = "tests/a.lua"
    /\ Cataloged(testSuites) = {<<"S1", "T1">>, <<"S1", "T2">>, <<"S2", "T1">>}
    /\ testSuites["S1"]["T1"].filePath = "tests/a.lua"
    /\ testSuites["S1"]["T2"].filePath = "b.lua"

RECURSIVE TableAt(_, _)
\* The table reached from tab along a chain of keys.
TableAt(tab, keyChain) ==
    IF keyChain = <<>> THEN tab
    ELSE TableAt(lua_gettable(tab, LuaValueFromJsonValue(Head(keyChain))),
                 Tail(keyChain))

\* C25: when assert_eq or expect_eq fails on two tables because of a missing
\* or an extra key, the key its diagnostic names, in the tables its chain of
\* keys leads to, is a key that one side has and the other has not: a key
\* of lhs that rhs lacks when it is reported missing, a key of rhs that lhs
\* lacks when it is reported extra; the expectation is found not met, and
\* assert_eq raises its error, which ends the body.
C25_DiagnosticPointsAtKey ==
    (/\ probe.called \in {"assert", "expect"}
     /\ probe.kind = "eq"
     /\ lua_istable(probe.lhs) /\ lua_istable(probe.rhs)
     /\ CompareLuaTables(probe.lhs, probe.rhs, <<>>).status
            \in {"missing", "extra"}) =>
        LET d == CompareLuaTables(probe.lhs, probe.rhs, <<>>)
            lhsKeys == DOMAIN TableAt(probe.lhs, d.keyChain).v
            rhsKeys == DOMAIN TableAt(probe.rhs, d.keyChain).v
            key == LuaValueFromJsonValue(d.key)
        IN  /\ probe.result.unmet
            /\ (probe.called = "assert" => probe.result.raise)
            /\ (probe.called = "expect" => currentTestFailed)
            /\ (d.status = "missing" => key \in lhsKeys \ rhsKeys)
            /\ (d.status = "extra" => key \in rhsKeys \ lhsKeys)

\* C26: for every key of the tables CompareLuaTables enumerates that has a
\* JSON value, JsonValueFromLuaValue followed by LuaValueFromJsonValue gives
\* the key back, an integer as the same integer and a float as a float, and
\* no two keys of a table have the same JSON value.
C26_BridgeKeepsNumbers ==
    probe.called = "CompareLuaTables" =>
        \A tab \in {probe.lhs, probe.rhs} :
            /\ \A k \in DOMAIN tab.v :
                  ~JsonRaises(k) =>
                      /\ LuaValueFromJsonValue(JsonValueFromLuaValue(k)) = k
                      /\ (k.t = "integer" <=>
                              JsonValueFromLuaValue(k).t = "Integer")
                      /\ (k.t = "float" <=>
                              JsonValueFromLuaValue(k).t = "FloatingPoint")
            /\ (~EnumerateKeysRaises(tab) =>
                    Cardinality(EnumerateKeys(tab)) = Cardinality(DOMAIN tab.v))

\* C27: whenever an expect_ function finds its expectation not met and calls
\* errorMessageDelegate of Impl, in a body or in the top-level code of a
\* script that LoadTestSuite or RunTest is running, the delegate is set to
\* the delegate of the caller: it is not empty.
C27_DelegateSetWhenReporting ==
    [][/\ (pc = "body" /\ ~run.expectUnmet /\ pc' = "body" /\ run'.expectUnmet =>
                errorMessageDelegate = "caller")
       /\ (pc = "idle" /\ last'.op \in {"LoadTestSuite", "RunTest"}
                /\ last'.ret = "exception" =>
                errorMessageDelegate = "caller")]_vars

\* C28: RunTest clears currentTestFailed before it runs a test of
\* testSuites, so that, whatever ran before, a RunTest whose body returns
\* with no expect_ call that found its expectation not met returns true.
C28_FlagClearedBeforeRun ==
    [][/\ (pc = "idle" /\ pc' = "body" => ~currentTestFailed')
       /\ (pc = "body" /\ pc' = "idle" /\ last'.bodyExit = "normal"
                /\ ~last'.expectUnmet =>
                last'.passed)]_vars

\* C28, witness: a RunTest that found currentTestFailed set by an earlier
\* RunTest has run a body that returned, and has returned true.
C28_Witness ==
    /\ RunTestEnded
    /\ last.failedBefore
    /\ last.bodyExit = "normal"
    /\ last.passed

\* C29: every call of CompareLuaTables on two tables, also on tables that
\* hold themselves or each other, comes to its end: it returns its answer
\* or it raises an error.
C29_ComparisonTerminates == <>(cmp.state \in {"returned", "raised"})

\* C30: every call of Runner::Configure returns, whatever the lines of the
\* configuration files and the folders they name, also when a line names
\* the folder of the file itself or two files name the folder of each
\* other.
C30_ConfigureTerminates == <>(cfg.state = "returned")

====
